---- MODULE Spec2Model ----
(***************************************************************************)
(* Model of the IP monitoring daemon of src/main.go: the loop of main,     *)
(* getCurrentIP, getEnvIP, updateEnvFile, restartCharon and the ip_store    *)
(* table.                                                                   *)
(*                                                                          *)
(* Text is modelled as a sequence of tokens.  The token KEYEQ stands for    *)
(* the string "CHARON_P2P_EXTERNAL_HOSTNAME=", NL for "\n", the elements    *)
(* of Addr for addresses and UNRELATED for an unrelated "FOO=bar" text.     *)
(***************************************************************************)
EXTENDS Naturals, Sequences, FiniteSets

VARIABLES
    pc,                 \* position of main: initDB, fetch, getenv, query, decide, rewrite, restart, insert, fatal, crashed
    consecutiveErrors,  \* main.go:165
    currentIP,          \* main.go:169, local of the loop body
    envIP,              \* main.go:185
    storedIP,           \* main.go:190
    err,                \* main.go:191, result of the query: "nil", "ErrNoRows"
    envFile,            \* content of the file .env
    procEnv,            \* value of CHARON_P2P_EXTERNAL_HOSTNAME in the process environment
    store,              \* rows of the table ip_store
    tlog,               \* what the current tick has logged so far
    last,               \* the tick that ended last: its address, its log and its sleep
    applied             \* history: address of the latest tick whose write and restart both succeeded

vars == <<pc, consecutiveErrors, currentIP, envIP, storedIP, err, envFile, procEnv, store, tlog, last, applied>>

\* ---------------------------------------------------------------- constants

checkInterval == 10
retryInterval == 5
maxConsecutiveErrors == 5

KEYEQ == "K="
NL == "NL"
UNRELATED == "o"
UNSET == "unset"
NONE == "none"

Addr == {"a", "b"}

\* ---------------------------------------------------------------- bounds

\* fetch failures in a row the model follows
MaxErrors == 6
\* rows the table holds before an insert can only fail
MaxRows == 2
\* lines of the initial .env file
MaxLines == 2
\* tokens of the longest content whose write the model lets stop part-way
MaxPartial == 5

\* ---------------------------------------------------------------- text

\* strings.Split(s, "\n")
RECURSIVE Split(_)
Split(s) ==
    IF s = <<>> THEN << <<>> >>
    ELSE IF Head(s) = NL THEN << <<>> >> \o Split(Tail(s))
    ELSE LET r == Split(Tail(s)) IN << <<Head(s)>> \o Head(r) >> \o Tail(r)

\* strings.Join(lines, "\n")
RECURSIVE Join(_)
Join(lines) ==
    IF lines = <<>> THEN <<>>
    ELSE IF Len(lines) = 1 THEN lines[1]
    ELSE lines[1] \o <<NL>> \o Join(Tail(lines))

\* strings.HasPrefix(line, envKey+"=")
HasKeyPrefix(line) == Len(line) >= 1 /\ line[1] = KEYEQ

\* fmt.Sprintf("%s=%s", envKey, newIP)
KeyLine(newIP) == <<KEYEQ, newIP>>

\* index of the first line with the prefix, 0 when there is none (the loop with break)
FirstKeyIndex(lines) ==
    IF \E i \in 1..Len(lines) : HasKeyPrefix(lines[i])
    THEN CHOOSE i \in 1..Len(lines) :
            /\ HasKeyPrefix(lines[i])
            /\ \A j \in 1..(i - 1) : ~HasKeyPrefix(lines[j])
    ELSE 0

\* mutant: the rewrite drops the blank lines of the file
ReplaceOrAppend_DropBlank(lines, newIP) ==
    LET kept == SelectSeq(lines, LAMBDA l : l # <<>>)
        i == FirstKeyIndex(kept)
    IN IF i # 0 THEN [kept EXCEPT ![i] = KeyLine(newIP)]
       ELSE Append(kept, KeyLine(newIP))

\* the lines updateEnvFile writes back
ReplaceOrAppend(lines, newIP) ==
    LET i == FirstKeyIndex(lines) IN
    IF i # 0 THEN [lines EXCEPT ![i] = KeyLine(newIP)]
    ELSE Append(lines, KeyLine(newIP))

\* the content updateEnvFile writes for the content it read
NewContent(input, newIP) == Join(ReplaceOrAppend(Split(input), newIP))

\* the proper prefixes of a content: what a write that fails part-way leaves
Prefixes(s) == { SubSeq(s, 1, k) : k \in 0..(Len(s) - 1) }

\* os.WriteFile failing: the open failed (content kept) or the file was
\* truncated and the write stopped part-way
FailedWrite(old, new) == {old} \cup (IF Len(new) <= MaxPartial THEN Prefixes(new) ELSE {})

\* ---------------------------------------------------------------- godotenv

\* the value of a KEY=VALUE line
LineValue(line) == IF Len(line) >= 2 THEN line[2] ELSE ""

\* godotenv's parse of the file for the monitored key: a later line replaces an
\* earlier one in the map; UNSET when no line has the key
FileValue(content) ==
    LET lines == Split(content)
        S == { i \in 1..Len(lines) : HasKeyPrefix(lines[i]) }
    IN IF S = {} THEN UNSET
       ELSE LineValue(lines[CHOOSE i \in S : \A j \in S : j <= i])

\* mutant: the file replaces what the process environment holds (Overload for Load)
Load_Override(penv, content) == FileValue(content)

\* godotenv.Load: sets the variable from the file only when the process
\* environment does not hold it yet
Load(penv, content) == IF penv # UNSET THEN penv ELSE FileValue(content)

\* os.Getenv
Getenv(penv) == IF penv = UNSET THEN "" ELSE penv

\* getEnvIP: the address it returns, "" with an error
getEnvIP(loaded, penv) == IF loaded THEN Getenv(penv) ELSE ""

\* ---------------------------------------------------------------- fetch

Responses ==
    { [kind |-> k, ip |-> ""] : k \in {"neterr", "non200", "readerr", "badjson"} }
    \cup { [kind |-> "json", ip |-> x] : x \in Addr \cup {""} }

\* mutant: an empty address in the body is returned as a success
getCurrentIP_EmptyAccepted(resp) ==
    IF resp.kind = "neterr" THEN [ip |-> "", err |-> "network"]
    ELSE IF resp.kind = "non200" THEN [ip |-> "", err |-> "status"]
    ELSE IF resp.kind = "readerr" THEN [ip |-> "", err |-> "read"]
    ELSE IF resp.kind = "badjson" THEN [ip |-> "", err |-> "parse"]
    ELSE [ip |-> resp.ip, err |-> "nil"]

\* getCurrentIP: the address and the error it returns for a response
getCurrentIP(resp) ==
    IF resp.kind = "neterr" THEN [ip |-> "", err |-> "network"]
    ELSE IF resp.kind = "non200" THEN [ip |-> "", err |-> "status"]
    ELSE IF resp.kind = "readerr" THEN [ip |-> "", err |-> "read"]
    ELSE IF resp.kind = "badjson" THEN [ip |-> "", err |-> "parse"]
    ELSE IF resp.ip = "" THEN [ip |-> "", err |-> "empty"]
    ELSE [ip |-> resp.ip, err |-> "nil"]

\* mutant: the extended sleep starts one failure late (> for >=)
FetchBackoff_OffByOne(n) == IF n > maxConsecutiveErrors THEN checkInterval * 2 ELSE retryInterval

\* the sleep after a failed fetch, for the counter already incremented
FetchBackoff(n) == IF n >= maxConsecutiveErrors THEN checkInterval * 2 ELSE retryInterval

\* ---------------------------------------------------------------- ip_store

\* greatest updated_at of the table, 0 when empty
MaxStamp(rows) ==
    IF rows = <<>> THEN 0
    ELSE CHOOSE t \in { rows[i].updated_at : i \in 1..Len(rows) } :
            \A i \in 1..Len(rows) : rows[i].updated_at <= t

\* SELECT ip FROM ip_store ORDER BY updated_at DESC LIMIT 1
LatestIP(rows) ==
    (CHOOSE r \in { rows[i] : i \in 1..Len(rows) } : r.updated_at = MaxStamp(rows)).ip

\* INSERT INTO ip_store (ip) VALUES (?): a later insert has a later timestamp
InsertRow(rows, ip) ==
    Append(rows, [id |-> Len(rows) + 1, ip |-> ip, updated_at |-> MaxStamp(rows) + 1])

\* ---------------------------------------------------------------- decision

\* mutant: an absent config value counts as a difference
UpdateRequired_NoPresenceCheck(e, stored, current, env) ==
    \/ e = "ErrNoRows"
    \/ (e = "nil" /\ stored # current)
    \/ env # stored

\* mutant: the empty table is not a reason to update
UpdateRequired_NoFirstRun(e, stored, current, env) ==
    \/ (e = "nil" /\ stored # current)
    \/ (env # "" /\ env # stored)

\* mutant: the config value is not compared
UpdateRequired_NoDrift(e, stored, current, env) ==
    \/ e = "ErrNoRows"
    \/ (e = "nil" /\ stored # current)

\* mutant: the fetched address is compared with the config value, not with the table
UpdateRequired_ConfigDecides(e, stored, current, env) ==
    \/ env = ""
    \/ env # current

\* the condition of the if of main.go:204-206
UpdateRequired(e, stored, current, env) ==
    \/ e = "ErrNoRows"
    \/ (e = "nil" /\ stored # current)
    \/ (env # "" /\ env # stored)

\* which disjunct asked for the update, the first that holds: for the log
Trigger(e, stored, current) ==
    IF e = "ErrNoRows" THEN "update_a"
    ELSE IF stored # current THEN "update_b"
    ELSE "update_c"

\* ---------------------------------------------------------------- initial state

InitLines == { <<>>, <<UNRELATED>>, <<KEYEQ>> } \cup { KeyLine(x) : x \in Addr }

RECURSIVE SeqsUpTo(_, _)
SeqsUpTo(S, n) ==
    IF n = 0 THEN { <<>> }
    ELSE LET R == SeqsUpTo(S, n - 1) IN
         R \cup { Append(q, x) : q \in { r \in R : Len(r) = n - 1 }, x \in S }

\* the contents of .env the daemon may start with: 1..MaxLines lines
InitFiles == { Join(ls) : ls \in SeqsUpTo(InitLines, MaxLines) \ { <<>> } }

\* the tables the daemon may start with: empty or one row
InitStores == { <<>> } \cup { InsertRow(<<>>, x) : x \in Addr }

NoTick == [ip |-> "", log |-> <<>>, sleep |-> 0]

Init ==
    /\ pc = "initDB"
    /\ consecutiveErrors = 0
    /\ currentIP = ""
    /\ envIP = ""
    /\ storedIP = ""
    /\ err = "nil"
    /\ envFile \in InitFiles
    /\ procEnv = UNSET
    /\ store \in InitStores
    /\ tlog = <<>>
    /\ last = NoTick
    /\ applied = NONE

\* ---------------------------------------------------------------- the loop

\* the loop body ends (continue, or the sleep at its end): the next tick starts
\* at the fetch and the locals of the body are gone
EndTick(ip, lg, d) ==
    /\ pc' = "fetch"
    /\ last' = [ip |-> ip, log |-> lg, sleep |-> d]
    /\ tlog' = <<>>
    /\ currentIP' = ""
    /\ envIP' = ""
    /\ storedIP' = ""
    /\ err' = "nil"

\* main.go:156-160
InitDB ==
    /\ pc = "initDB"
    /\ \E ok \in BOOLEAN : pc' = IF ok THEN "fetch" ELSE "fatal"
    /\ UNCHANGED <<consecutiveErrors, currentIP, envIP, storedIP, err, envFile, procEnv, store, tlog, last, applied>>

\* main.go:169-182
Fetch ==
    /\ pc = "fetch"
    /\ \E resp \in Responses :
        LET r == getCurrentIP(resp) IN
        IF r.err # "nil"
        THEN /\ consecutiveErrors < MaxErrors
             /\ consecutiveErrors' = consecutiveErrors + 1
             /\ EndTick("", <<"fetch_err">>, FetchBackoff(consecutiveErrors + 1))
        ELSE /\ consecutiveErrors' = 0
             /\ currentIP' = r.ip
             /\ tlog' = <<"fetch_ok">>
             /\ pc' = "getenv"
             /\ UNCHANGED <<envIP, storedIP, err, last>>
    /\ UNCHANGED <<envFile, procEnv, store, applied>>

\* main.go:185-188
GetEnvIP ==
    /\ pc = "getenv"
    /\ \E loaded \in BOOLEAN :
        /\ procEnv' = IF loaded THEN Load(procEnv, envFile) ELSE procEnv
        /\ envIP' = getEnvIP(loaded, procEnv')
        /\ tlog' = Append(tlog, IF ~loaded THEN "env_load_err"
                                 ELSE IF envIP' = "" THEN "env_absent" ELSE "env_ok")
    /\ pc' = "query"
    /\ UNCHANGED <<consecutiveErrors, currentIP, storedIP, err, envFile, store, last, applied>>

\* mutant: a failed query is followed by the check interval
Query_CheckInterval ==
    /\ pc = "query"
    /\ \E ok \in BOOLEAN :
        IF ~ok
        THEN EndTick(currentIP, Append(tlog, "query_err"), checkInterval)
        ELSE /\ err' = IF store = <<>> THEN "ErrNoRows" ELSE "nil"
             /\ storedIP' = IF store = <<>> THEN "" ELSE LatestIP(store)
             /\ tlog' = Append(tlog, IF store = <<>> THEN "no_rows" ELSE "query_ok")
             /\ pc' = "decide"
             /\ UNCHANGED <<currentIP, envIP, last>>
    /\ UNCHANGED <<consecutiveErrors, envFile, procEnv, store, applied>>

\* main.go:190-201
Query ==
    /\ pc = "query"
    /\ \E ok \in BOOLEAN :
        IF ~ok
        THEN EndTick(currentIP, Append(tlog, "query_err"), retryInterval)
        ELSE /\ err' = IF store = <<>> THEN "ErrNoRows" ELSE "nil"
             /\ storedIP' = IF store = <<>> THEN "" ELSE LatestIP(store)
             /\ tlog' = Append(tlog, IF store = <<>> THEN "no_rows" ELSE "query_ok")
             /\ pc' = "decide"
             /\ UNCHANGED <<currentIP, envIP, last>>
    /\ UNCHANGED <<consecutiveErrors, envFile, procEnv, store, applied>>

\* main.go:204-206 and 221-226
Decide ==
    /\ pc = "decide"
    /\ IF UpdateRequired(err, storedIP, currentIP, envIP)
       THEN /\ pc' = "rewrite"
            /\ tlog' = Append(tlog, Trigger(err, storedIP, currentIP))
            /\ UNCHANGED <<currentIP, envIP, storedIP, err, last>>
       ELSE EndTick(currentIP, Append(tlog, "no_change"), checkInterval)
    /\ UNCHANGED <<consecutiveErrors, envFile, procEnv, store, applied>>

\* main.go:113-143 (and 208-213 when it fails)
Rewrite ==
    /\ pc = "rewrite"
    /\ \/ /\ EndTick(currentIP, Append(tlog, "read_err"), retryInterval)
          /\ UNCHANGED envFile
       \/ /\ envFile' \in FailedWrite(envFile, NewContent(envFile, currentIP))
          /\ EndTick(currentIP, Append(tlog, "write_err"), retryInterval)
       \/ /\ envFile' = NewContent(envFile, currentIP)
          /\ tlog' = Append(tlog, "write_ok")
          /\ pc' = "restart"
          /\ UNCHANGED <<currentIP, envIP, storedIP, err, last>>
    /\ UNCHANGED <<consecutiveErrors, procEnv, store, applied>>

\* mutant: the error of the restart is dropped and the tick goes on to the insert
RestartCharon_ErrorIgnored ==
    /\ pc = "restart"
    /\ \/ /\ tlog' = Append(tlog, "restart_err")
          /\ UNCHANGED applied
       \/ /\ tlog' = Append(tlog, "restart_ok")
          /\ applied' = currentIP
    /\ pc' = "insert"
    /\ UNCHANGED <<consecutiveErrors, currentIP, envIP, storedIP, err, envFile, procEnv, store, last>>

\* main.go:102-111 and 145-149 (and 208-213 when it fails)
RestartCharon ==
    /\ pc = "restart"
    /\ \/ /\ EndTick(currentIP, Append(tlog, "restart_err"), retryInterval)
          /\ UNCHANGED applied
       \/ /\ tlog' = Append(tlog, "restart_ok")
          /\ applied' = currentIP
          /\ pc' = "insert"
          /\ UNCHANGED <<currentIP, envIP, storedIP, err, last>>
    /\ UNCHANGED <<consecutiveErrors, envFile, procEnv, store>>

\* mutant: a failed insert is followed by the retry interval
Insert_RetryInterval ==
    /\ pc = "insert"
    /\ \/ /\ Len(store) < MaxRows
          /\ store' = InsertRow(store, currentIP)
          /\ EndTick(currentIP, Append(tlog, "insert_ok"), checkInterval)
       \/ /\ UNCHANGED store
          /\ EndTick(currentIP, Append(tlog, "insert_err"), retryInterval)
    /\ UNCHANGED <<consecutiveErrors, envFile, procEnv, applied>>

\* mutant: a failed insert ends the process (log.Fatalf for log.Printf)
Insert_FatalOnError ==
    /\ pc = "insert"
    /\ \/ /\ Len(store) < MaxRows
          /\ store' = InsertRow(store, currentIP)
          /\ EndTick(currentIP, Append(tlog, "insert_ok"), checkInterval)
       \/ /\ pc' = "fatal"
          /\ tlog' = Append(tlog, "insert_err")
          /\ UNCHANGED <<store, currentIP, envIP, storedIP, err, last>>
    /\ UNCHANGED <<consecutiveErrors, envFile, procEnv, applied>>

\* main.go:215-226
Insert ==
    /\ pc = "insert"
    /\ \/ /\ Len(store) < MaxRows
          /\ store' = InsertRow(store, currentIP)
          /\ EndTick(currentIP, Append(tlog, "insert_ok"), checkInterval)
       \/ /\ UNCHANGED store
          /\ EndTick(currentIP, Append(tlog, "insert_err"), checkInterval)
    /\ UNCHANGED <<consecutiveErrors, envFile, procEnv, applied>>

Next ==
    \/ InitDB
    \/ Fetch
    \/ GetEnvIP
    \/ Query
    \/ Decide
    \/ Rewrite
    \/ RestartCharon
    \/ Insert

Spec == Init /\ [][Next]_vars

\* ---------------------------------------------------------------- a crash in the write

\* the process dies inside os.WriteFile of main.go:139: before the file was
\* opened, after it was truncated and some of the content written, or after all
\* of it was written
CrashInWrite ==
    /\ pc = "rewrite"
    /\ envFile' \in {envFile} \cup Prefixes(NewContent(envFile, currentIP))
                       \cup {NewContent(envFile, currentIP)}
    /\ pc' = "crashed"
    /\ UNCHANGED <<consecutiveErrors, currentIP, envIP, storedIP, err, procEnv, store, tlog, last, applied>>

CrashNext ==
    \/ Next
    \/ CrashInWrite

CrashSpec == Init /\ [][CrashNext]_vars

\* ---------------------------------------------------------------- reading the log and the file

Has(lg, e) == \E i \in 1..Len(lg) : lg[i] = e

Count(lg, e) == Cardinality({ i \in 1..Len(lg) : lg[i] = e })

\* e comes before f in lg
Before(lg, e, f) == \E i, j \in 1..Len(lg) : i < j /\ lg[i] = e /\ lg[j] = f

\* the lines of a content that have the monitored key
KeyLines(content) == { i \in 1..Len(Split(content)) : HasKeyPrefix(Split(content)[i]) }

\* the values the monitored key has in a content
KeyValues(content) == { LineValue(Split(content)[i]) : i \in KeyLines(content) }

\* ---------------------------------------------------------------- claims

\* C1 (as stated): at a tick boundary the monitored key of the config file holds
\* the address of the latest tick whose config write and restart both succeeded,
\* never one whose restart failed.  Stated for the boundaries the claim singles
\* out, those that end a tick whose restart failed, and read in its favour: some
\* line of the key still holds the address applied last.
C1_ConfigIsLastApplied ==
    (pc = "fetch" /\ applied # NONE /\ Has(last.log, "restart_err"))
        => applied \in KeyValues(envFile)

\* C2: on a tick whose fetch and store read succeeded, main calls updateEnvFile
\* iff the table is empty, or its latest address differs from the fetched one, or
\* the config value is present and differs from the latest stored address.
C2_DecisionRule ==
    [][pc = "decide" =>
        ((pc' = "rewrite") <=>
            \/ store = <<>>
            \/ (store # <<>> /\ LatestIP(store) # currentIP)
            \/ (envIP # "" /\ store # <<>> /\ envIP # LatestIP(store)))]_vars

\* C2 witness: a tick with the config value absent and the stored address equal
\* to the fetched one ended without an update.
C2_Witness ==
    /\ pc = "fetch"
    /\ last.log = <<"fetch_ok", "env_absent", "query_ok", "no_change">>
    /\ LatestIP(store) = last.ip

\* C3 (as stated): a tick whose fetched address equals both the latest stored
\* address and the value of the key in the config file does not reach the rewrite.
C3_Idempotent ==
    pc = "rewrite" =>
        ~(store # <<>> /\ LatestIP(store) = currentIP /\ FileValue(envFile) = currentIP)

\* no collaborator failed in the tick of this log (an absent key is no failure)
AllSucceeded(lg) ==
    \A e \in {"fetch_err", "env_load_err", "query_err", "read_err", "write_err",
              "restart_err", "insert_err"} : ~Has(lg, e)

\* C4: first run.  A tick that found the table empty and no monitored key, and
\* in which every collaborator succeeded, made exactly one config write, one
\* restart and one insert: the table holds the one new row and the file the one
\* new line.
C4_FirstRun ==
    (pc = "fetch" /\ Has(last.log, "no_rows") /\ Has(last.log, "env_absent")
        /\ procEnv = UNSET /\ AllSucceeded(last.log))
    => /\ Count(last.log, "write_ok") = 1
       /\ Count(last.log, "restart_ok") = 1
       /\ Count(last.log, "insert_ok") = 1
       /\ store = InsertRow(<<>>, last.ip)
       /\ Cardinality(KeyLines(envFile)) = 1
       /\ KeyValues(envFile) = {last.ip}

\* C4 witness: such a first run has ended.
C4_Witness ==
    /\ pc = "fetch"
    /\ last.log = <<"fetch_ok", "env_absent", "no_rows", "update_a", "write_ok",
                    "restart_ok", "insert_ok">>
    /\ procEnv = UNSET
    /\ last.ip \in Addr
    /\ Len(store) = 1

\* C5 (as stated): with the latest stored address A, the config file holding
\* B # A for the key and the fetched address A, the tick updates.  Here for the
\* ticks whose config read succeeded: none of them ends without an update while
\* the file holds such a B.
C5_DriftDetected ==
    ~(/\ pc = "fetch"
      /\ Has(last.log, "env_ok")
      /\ Has(last.log, "no_change")
      /\ store # <<>>
      /\ LatestIP(store) = last.ip
      /\ FileValue(envFile) \in Addr \ {last.ip})

\* C6: consecutiveErrors starts at 0, a failed fetch adds exactly 1 and a
\* successful fetch resets it to 0; the n-th failure in a row is followed by a
\* sleep of 5 when n < 5 and of 20 when n >= 5.
C6_Backoff ==
    /\ consecutiveErrors = 0
    /\ [][pc = "fetch" =>
            /\ pc' = "fetch" =>
                /\ consecutiveErrors' = consecutiveErrors + 1
                /\ last'.log = <<"fetch_err">>
                /\ last'.sleep = IF consecutiveErrors' < 5 THEN 5 ELSE 20
            /\ pc' # "fetch" =>
                /\ consecutiveErrors' = 0
                /\ Has(tlog', "fetch_ok")]_vars

\* C6 witness: the fifth failure in a row was followed by the extended sleep.
C6_Witness ==
    /\ pc = "fetch"
    /\ consecutiveErrors = 5
    /\ last.log = <<"fetch_err">>
    /\ last.sleep = 20

\* C7: the table changes only by the insert of the fetched address, in a tick
\* whose config write of that address and whose restart both succeeded before, in
\* this order; a tick whose restart failed, or whose config write failed, ends
\* with the table as it was and without an insert, and a failed write is followed
\* by no restart.
C7_InsertAfterWriteAndRestart ==
    [][/\ store' # store =>
            /\ pc = "insert"
            /\ store' = InsertRow(store, currentIP)
            /\ Before(tlog, "write_ok", "restart_ok")
            /\ Count(tlog, "write_ok") = 1
            /\ Count(tlog, "restart_ok") = 1
            /\ currentIP \in KeyValues(envFile)
            /\ applied = currentIP
       /\ \A e \in {"insert_ok", "insert_err"} :
            (Has(tlog', e) \/ Has(last'.log, e)) =>
                (Has(tlog', "restart_ok") \/ Has(last'.log, "restart_ok"))
       /\ (last' # last /\ Has(last'.log, "restart_err")) =>
            /\ store' = store
            /\ Has(last'.log, "write_ok")
            /\ ~Has(last'.log, "insert_ok")
            /\ ~Has(last'.log, "insert_err")
       /\ (last' # last /\ (Has(last'.log, "write_err") \/ Has(last'.log, "read_err"))) =>
            /\ store' = store
            /\ ~Has(last'.log, "restart_ok")
            /\ ~Has(last'.log, "restart_err")
            /\ ~Has(last'.log, "insert_ok")
            /\ ~Has(last'.log, "insert_err")]_vars

\* C7 witness: a tick whose config write succeeded and whose restart failed has
\* ended, the table still empty.
C7_Witness ==
    /\ pc = "fetch"
    /\ Has(last.log, "write_ok")
    /\ Has(last.log, "restart_err")
    /\ store = <<>>
    /\ last.ip \in KeyValues(envFile)

\* the tick before this one wrote the config file and failed to restart, and
\* this tick fetched the same address and read the table
RetryAfterFailedRestart ==
    /\ pc = "decide"
    /\ Has(last.log, "write_ok")
    /\ Has(last.log, "restart_err")
    /\ last.ip = currentIP

C9_SteadyState ==
    [][(/\ pc = "decide"
        /\ Has(last.log, "write_ok")
        /\ Has(last.log, "restart_ok")
        /\ Has(last.log, "insert_ok")
        /\ last.ip = currentIP)
        => pc' # "rewrite"]_vars

\* C10: a successful rewrite leaves every line without the key prefix as it was
\* and where it was; with a line of the key, its first is replaced in place by
\* the new line and the number of lines is kept; with none, the new line is
\* appended after all the lines.
C10_LinePreservation ==
    [][(pc = "rewrite" /\ pc' = "restart") =>
        LET old == Split(envFile)
            new == Split(envFile')
        IN IF \E i \in 1..Len(old) : HasKeyPrefix(old[i])
           THEN /\ Len(new) = Len(old)
                /\ \A i \in 1..Len(old) : ~HasKeyPrefix(old[i]) => new[i] = old[i]
                /\ \E i \in 1..Len(old) :
                    /\ HasKeyPrefix(old[i])
                    /\ \A j \in 1..(i - 1) : ~HasKeyPrefix(old[j])
                    /\ new[i] = <<KEYEQ, currentIP>>
                    /\ \A j \in 1..Len(old) : j # i => new[j] = old[j]
           ELSE /\ Len(new) = Len(old) + 1
                /\ \A i \in 1..Len(old) : new[i] = old[i]
                /\ new[Len(new)] = <<KEYEQ, currentIP>>]_vars

\* C10 witness: the file was rewritten for an address other than the one the
\* process had loaded from it, and holds the new line before an unrelated line
\* at the end.
C10_Witness ==
    /\ pc = "restart"
    /\ envIP \in Addr \ {currentIP}
    /\ Len(Split(envFile)) >= 2
    /\ Split(envFile)[1] = <<KEYEQ, currentIP>>
    /\ Split(envFile)[Len(Split(envFile))] = <<UNRELATED>>

\* C11 (as stated): after a successful write of updateEnvFile the config file
\* has at most one line beginning with the key, whatever it held before.
C11_SingleKeyLine ==
    pc = "restart" => Cardinality(KeyLines(envFile)) <= 1

\* the positions of main inside the for loop
LoopPositions == {"fetch", "getenv", "query", "decide", "rewrite", "restart", "insert"}

\* C12: the process ends by itself only when initDB fails, and then nothing was
\* fetched, written, restarted or inserted; once in the loop every step stays in
\* the loop, a step is always possible, and every tick that ends, failed or not,
\* is followed by a sleep and a new tick at the fetch.
C12_NoTerminalState ==
    /\ [](pc = "fatal" =>
            /\ tlog = <<>>
            /\ last = NoTick
            /\ applied = NONE
            /\ procEnv = UNSET
            /\ consecutiveErrors = 0
            /\ envFile \in InitFiles
            /\ store \in InitStores)
    /\ [](pc \in LoopPositions => ENABLED Next)
    /\ [][(pc \in LoopPositions) =>
            /\ pc' \in LoopPositions
            /\ (pc' = "fetch" => last'.sleep \in {retryInterval, checkInterval, 2 * checkInterval})
            /\ ((\E e \in {"fetch_err", "query_err", "read_err", "write_err", "restart_err",
                           "insert_err"} : Has(tlog', e) \/ (pc' = "fetch" /\ Has(last'.log, e)))
                    => pc' = "fetch")]_vars

\* C12 witness: the loop is at a new fetch after more failed fetches in a row
\* than the threshold.
C12_Witness ==
    /\ pc = "fetch"
    /\ consecutiveErrors > maxConsecutiveErrors
    /\ last.log = <<"fetch_err">>

\* C13 (as stated): the config value the loop compares is the value the key has
\* in the config file at that moment, "" exactly when the file has no such key;
\* here for the ticks whose load of the file succeeded.
C13_FreshConfigRead ==
    (pc = "query" /\ ~Has(tlog, "env_load_err"))
        => envIP = IF FileValue(envFile) = UNSET THEN "" ELSE FileValue(envFile)

\* C14: a tick whose fetch fails reads and writes neither the config file nor
\* the table and restarts nothing: only consecutiveErrors changes and the tick is
\* over; a fetch that goes on into the tick has returned a non-empty address.
C14_FailedFetchFrame ==
    [][pc = "fetch" =>
        /\ pc' = "fetch" =>
            /\ envFile' = envFile
            /\ procEnv' = procEnv
            /\ store' = store
            /\ applied' = applied
            /\ consecutiveErrors' = consecutiveErrors + 1
            /\ last'.log = <<"fetch_err">>
            /\ last'.ip = ""
        /\ pc' # "fetch" =>
            /\ pc' = "getenv"
            /\ currentIP' \in Addr]_vars

\* C14 witness: the first tick of the process failed at the fetch, and the key
\* the file holds has not been loaded.
C14_Witness ==
    /\ pc = "fetch"
    /\ last.log = <<"fetch_err">>
    /\ consecutiveErrors = 1
    /\ procEnv = UNSET
    /\ FileValue(envFile) \in Addr
    /\ applied = NONE

\* C15: a failed read of the table, a failed read or write of the config file
\* and a failed restart each end the tick with the retry interval of 5 and a new
\* tick at the fetch, with no insert and with consecutiveErrors 0 before and
\* after.
C15_ShortRetry ==
    [][(pc \in {"query", "rewrite", "restart"} /\ pc' = "fetch") =>
        /\ last'.sleep = 5
        /\ \E e \in {"query_err", "read_err", "write_err", "restart_err"} :
                last'.log[Len(last'.log)] = e
        /\ ~Has(last'.log, "insert_ok")
        /\ ~Has(last'.log, "insert_err")
        /\ store' = store
        /\ consecutiveErrors = 0
        /\ consecutiveErrors' = 0]_vars

\* C15 witness: a tick ended at the failed read of the table, with the retry
\* interval.
C15_Witness ==
    /\ pc = "fetch"
    /\ Has(last.log, "query_err")
    /\ last.sleep = 5
    /\ consecutiveErrors = 0

\* C16: when the insert fails after the config write and the restart succeeded,
\* the config file is left with the new address, the table is as it was, and the
\* tick ends with the check interval of 10.
C16_BestEffortHistory ==
    [][(pc = "insert" /\ store' = store) =>
        /\ envFile' = envFile
        /\ currentIP \in KeyValues(envFile')
        /\ pc' = "fetch"
        /\ last'.sleep = 10
        /\ last'.ip = currentIP
        /\ last'.log = Append(tlog, "insert_err")
        /\ Has(tlog, "write_ok")
        /\ Has(tlog, "restart_ok")
        /\ applied' = currentIP]_vars

\* C16 witness: a tick ended at the failed insert: the file holds its address,
\* the table is still empty.
C16_Witness ==
    /\ pc = "fetch"
    /\ Has(last.log, "insert_err")
    /\ last.sleep = 10
    /\ last.ip \in KeyValues(envFile)
    /\ store = <<>>

\* C17 (as stated): when the process crashes during the rewrite of the config
\* file, every unrelated line the file held is still there, where it was.
C17_CrashKeepsUnrelatedLines ==
    [][pc' = "crashed" =>
        LET old == Split(envFile)
            new == Split(envFile')
        IN \A i \in 1..Len(old) :
            (old[i] # <<>> /\ ~HasKeyPrefix(old[i])) => (i <= Len(new) /\ new[i] = old[i])]_vars

\* the table lags: the restart last succeeded for the address this tick fetched,
\* and the table is empty or its latest address is another one (the insert that
\* followed that restart failed and none succeeded since)
HistoryLags ==
    /\ applied = currentIP
    /\ (store = <<>> \/ LatestIP(store) # currentIP)

\* C19: while the table lags behind a config write and restart that succeeded
\* for the fetched address, every tick that fetches it again and reads the table
\* updates, with at most one write and one restart in the tick; once the table's
\* latest address is the fetched one and the config read gives it too, the tick
\* does not update.
C19_RepeatWhileHistoryLags ==
    [][/\ (pc = "decide" /\ HistoryLags) => pc' = "rewrite"
       /\ (pc = "decide" /\ store # <<>> /\ LatestIP(store) = currentIP /\ envIP = currentIP)
            => (pc' = "fetch" /\ Has(last'.log, "no_change"))
       /\ Count(tlog', "write_ok") <= 1
       /\ Count(tlog', "restart_ok") + Count(tlog', "restart_err") <= 1]_vars

\* C19 witness: the tick after a failed insert fetched the same address and is
\* at the rewrite again, the table still lagging.
C19_Witness ==
    /\ pc = "rewrite"
    /\ Has(last.log, "restart_ok")
    /\ Has(last.log, "insert_err")
    /\ last.ip = currentIP
    /\ HistoryLags

\* ---------------------------------------------------------------- every call succeeds in the end

\* the steps in which each collaborator's call succeeds
FetchSucceeds == Fetch /\ pc' = "getenv"
LoadSucceeds == GetEnvIP /\ ~Has(tlog', "env_load_err")
QuerySucceeds == Query /\ pc' = "decide"
WriteSucceeds == Rewrite /\ pc' = "restart"
RestartSucceeds == RestartCharon /\ pc' = "insert"
InsertSucceeds == Insert /\ store' # store

\* the loop of main.go:168-227 never stops by itself, and a call that is made
\* again and again succeeds in the end
Fairness ==
    /\ WF_vars(Next)
    /\ SF_vars(FetchSucceeds)
    /\ SF_vars(LoadSucceeds)
    /\ SF_vars(QuerySucceeds)
    /\ SF_vars(WriteSucceeds)
    /\ SF_vars(RestartSucceeds)
    /\ SF_vars(InsertSucceeds)

LiveSpec == Init /\ [][Next]_vars /\ Fairness

\* the address the fetch settles on
StableAddr == "a"

\* the key of .env, the restart and the table all agree on the address x
Converged(x) ==
    /\ KeyValues(envFile) = {x}
    /\ applied = x
    /\ store # <<>>
    /\ LatestIP(store) = x

\* .env has one line of the key and its address is not x
Diverged(x) ==
    /\ Cardinality(KeyLines(envFile)) = 1
    /\ FileValue(envFile) \in Addr \ {x}

\* C18: from a tick on which .env holds another address under the key, if from
\* then on every fetch that succeeds returns StableAddr and .env is always
\* loaded, and every call succeeds in the end, then eventually the key of .env
\* is StableAddr, the restart has succeeded for it and the latest row of the
\* table holds it.
C18_Convergence ==
    []((/\ pc = "fetch"
        /\ Diverged(StableAddr)
        /\ [](currentIP \in {"", StableAddr})
        /\ [](~Has(tlog, "env_load_err")))
          => <>Converged(StableAddr))

====
